---- MODULE Spec2Model ----
(***************************************************************************)
(* Real-time presence and message relay of the Ayinet backend              *)
(* (src/unnamed/part_000 lines 146-190, src/server.js lines 149-191).      *)
(*                                                                         *)
(* The process keeps one Map, onlineUsers (userId -> socket.id).  Every    *)
(* socket gets three handlers: the connection callback, the async          *)
(* send_message handler, which suspends once at `await pool.query(...)`,   *)
(* and the disconnect handler.  Handlers run on one event loop: each       *)
(* action below is one run-to-completion slice of a handler.               *)
(***************************************************************************)
EXTENDS Integers, Sequences, FiniteSets, TLC

\* ---------------------------------------------------------------- inputs
\* socket.id values handed out by the transport
Sockets == {"s1", "s2"}
\* user identifiers clients declare
Users == {"A", "B"}
\* JavaScript undefined: a missing handshake parameter or payload field
Absent == "undefined"
\* message texts a client sends; the empty string is a present, falsy value
Texts == {"hi", ""}
\* number of send_message events handled in one behaviour
MaxSends == 2

VARIABLES
    alive,        \* the Node process is running
    phase,        \* per socket: "new" (not yet connected), "open", "closed"
    userId,       \* per socket: the closure constant read from the handshake
    onlineUsers,  \* the Map userId -> socket.id (Absent: no entry)
    messages,     \* rows of the messages table, in insertion order
    inbox,        \* per socket: receive_message payloads emitted to it
    calls,        \* send_message invocations: arguments and position
    wire          \* every emit of the process, in program order

vars == <<alive, phase, userId, onlineUsers, messages, inbox, calls, wire>>

\* ------------------------------------------------------- pure helpers
\* JavaScript truthiness of a string-or-undefined value: if (userId); a
\* variant that takes every value for truthy
TruthyAll(v) == TRUE
Truthy(v) == v /= Absent /\ v /= ""

\* the keys a Map lookup or update can be given: a Map accepts undefined as
\* a key like any other value
Keys == Users \cup {Absent}

\* onlineUsers.set(u, sid), with a first-registration-wins variant
MapSetIfAbsent(m, u, sid) == IF m[u] = Absent THEN [m EXCEPT ![u] = sid] ELSE m
MapSet(m, u, sid) == [m EXCEPT ![u] = sid]

\* onlineUsers.delete(u): removes whatever entry u has; a variant that
\* forgets to remove
MapDeleteNoop(m, u) == m
MapDelete(m, u) == [m EXCEPT ![u] = Absent]

\* onlineUsers.get(u): undefined for a key that has no entry; a variant
\* that never finds an entry
MapGetMiss(m, u) == Absent
MapGet(m, u) == m[u]

\* pg sends an undefined parameter as NULL; every column of messages is nullable
Null == "NULL"
SqlParam(v) == IF v = Absent THEN Null ELSE v

\* INSERT INTO messages (sender_id, receiver_id, content, status)
\*   VALUES ($1, $2, $3, $4) RETURNING *  -- id is a fresh primary key
\* (a variant gives a repeated insert the identifier of the earlier row)
InsertRowDedup(rows, senderId, receiverId, text, st) ==
    LET same == {k \in DOMAIN rows :
                    /\ rows[k].sender_id = SqlParam(senderId)
                    /\ rows[k].receiver_id = SqlParam(receiverId)
                    /\ rows[k].content = SqlParam(text)}
    IN  [id          |-> IF same = {} THEN Len(rows) + 1
                         ELSE rows[CHOOSE k \in same : TRUE].id,
         sender_id   |-> SqlParam(senderId),
         receiver_id |-> SqlParam(receiverId),
         content     |-> SqlParam(text),
         status      |-> st]
InsertRow(rows, senderId, receiverId, text, st) ==
    [id          |-> Len(rows) + 1,
     sender_id   |-> SqlParam(senderId),
     receiver_id |-> SqlParam(receiverId),
     content     |-> SqlParam(text),
     status      |-> st]

\* savedMsg = { ...result.rows[0], text: rows[0].content, type: 'text' }
SavedMsg(row) ==
    [id          |-> row.id,
     sender_id   |-> row.sender_id,
     receiver_id |-> row.receiver_id,
     content     |-> row.content,
     status      |-> row.status,
     text        |-> row.content,
     type        |-> "text"]

\* emit('receive_message', p) towards socket sid
Emit(box, sid, p) == [box EXCEPT ![sid] = Append(@, p)]

\* ------------------------------------------------------------ Init
Init ==
    /\ alive = TRUE
    /\ phase = [s \in Sockets |-> "new"]
    /\ userId = [s \in Sockets |-> Absent]
    /\ onlineUsers = [u \in Keys |-> Absent]
    /\ messages = <<>>
    /\ inbox = [s \in Sockets |-> <<>>]
    /\ calls = <<>>
    /\ wire = <<>>

\* --------------------------------------------------------- actions
\* io.on('connection'): read the handshake, register a truthy userId
Connection(s, uid) ==
    /\ alive
    /\ phase[s] = "new"
    /\ phase' = [phase EXCEPT ![s] = "open"]
    /\ userId' = [userId EXCEPT ![s] = uid]
    /\ onlineUsers' = IF Truthy(uid) THEN MapSet(onlineUsers, uid, s)
                                     ELSE onlineUsers
    /\ UNCHANGED <<alive, messages, inbox, calls, wire>>

\* socket.on('disconnect').  (One variant also cancels the socket's
\* invocations that await the store, one forgets the registry.)
DisconnectAborts(s) ==
    /\ alive
    /\ phase[s] = "open"
    /\ phase' = [phase EXCEPT ![s] = "closed"]
    /\ onlineUsers' = IF Truthy(userId[s]) THEN MapDelete(onlineUsers, userId[s])
                                           ELSE onlineUsers
    /\ calls' = [i \in DOMAIN calls |->
                    IF calls[i].socket = s /\ calls[i].pc = "await"
                    THEN [calls[i] EXCEPT !.pc = "failed"] ELSE calls[i]]
    /\ UNCHANGED <<alive, userId, messages, inbox, wire>>
DisconnectNoCleanup(s) ==
    /\ alive
    /\ phase[s] = "open"
    /\ phase' = [phase EXCEPT ![s] = "closed"]
    /\ UNCHANGED <<alive, userId, onlineUsers, messages, inbox, calls, wire>>
Disconnect(s) ==
    /\ alive
    /\ phase[s] = "open"
    /\ phase' = [phase EXCEPT ![s] = "closed"]
    /\ onlineUsers' = IF Truthy(userId[s]) THEN MapDelete(onlineUsers, userId[s])
                                           ELSE onlineUsers
    /\ UNCHANGED <<alive, userId, messages, inbox, calls, wire>>

\* the `message` values a client can put in the payload: an object whose
\* fields may be missing, or no object at all
Messages == [isObject : {TRUE}, senderId : {"A", Absent}, text : Texts]
NoMessage == [isObject |-> FALSE, senderId |-> Absent, text |-> Absent]

\* number of missing or empty fields of a payload
Defects(m, r) ==
    (IF Truthy(m.senderId) THEN 0 ELSE 1) + (IF Truthy(m.text) THEN 0 ELSE 1)
    + (IF Truthy(r) THEN 0 ELSE 1)

\* the payloads of send_message events: complete ones, ones with a single
\* missing or empty field, and one without a message object.  Every event
\* carries a payload object: the handler destructures it in its parameter
\* list, outside the try block.
Payloads ==
    {p \in [message : Messages, receiverId : Users \cup {Absent}] :
        Defects(p.message, p.receiverId) = 0
        \/ (Defects(p.message, p.receiverId) = 1 /\ p.receiverId \in {"B", Absent})}
    \cup {[message |-> NoMessage, receiverId |-> "B"]}

\* position of invocation i after its synchronous slice: reading
\* message.senderId of an undefined message throws inside the try block, so
\* the catch runs and pool.query is never called
Issue(s, message, receiverId) ==
    [socket     |-> s,
     message    |-> message,
     receiverId |-> receiverId,
     pc         |-> IF message.isObject THEN "await" ELSE "failed",
     queried    |-> message.isObject,
     id         |-> 0,
     target     |-> Absent]

\* socket.on('send_message'), up to the await: evaluate the query parameters
\* and hand the INSERT to the pool.  (A variant queues the event behind an
\* invocation of the same socket that still awaits the store.)
SendMessageQueued(s, message, receiverId) ==
    /\ alive
    /\ phase[s] = "open"
    /\ Len(calls) < MaxSends
    /\ \A i \in DOMAIN calls : calls[i].socket = s => calls[i].pc /= "await"
    /\ calls' = Append(calls, Issue(s, message, receiverId))
    /\ UNCHANGED <<alive, phase, userId, onlineUsers, messages, inbox, wire>>
SendMessage(s, message, receiverId) ==
    /\ alive
    /\ phase[s] = "open"
    /\ Len(calls) < MaxSends
    /\ calls' = Append(calls, Issue(s, message, receiverId))
    /\ UNCHANGED <<alive, phase, userId, onlineUsers, messages, inbox, wire>>

\* the sockets savedMsg is emitted to, in order: the receiver's registered
\* socket when the lookup finds one, then the sender's own socket (one variant
\* leaves the confirmation to the sender out, one confirms to the sender
\* before it delivers)
RecipientsEchoFirst(m, call) ==
    LET receiverSocketId == MapGet(m, call.receiverId)
    IN  <<call.socket>>
        \o (IF Truthy(receiverSocketId) THEN <<receiverSocketId>> ELSE <<>>)
RecipientsNoEcho(m, call) ==
    LET receiverSocketId == MapGet(m, call.receiverId)
    IN  IF Truthy(receiverSocketId) THEN <<receiverSocketId>> ELSE <<>>
Recipients(m, call) ==
    LET receiverSocketId == MapGet(m, call.receiverId)
    IN  (IF Truthy(receiverSocketId) THEN <<receiverSocketId>> ELSE <<>>)
        \o <<call.socket>>

\* the emit calls of one invocation, in the order the handler makes them
Emits(sids, p) == [k \in DOMAIN sids |-> [to |-> sids[k], id |-> p.id]]

RECURSIVE EmitAll(_, _, _)
EmitAll(box, sids, p) ==
    IF sids = <<>> THEN box
    ELSE EmitAll(Emit(box, Head(sids), p), Tail(sids), p)

\* the catch block: console.error only, the process keeps running (a variant
\* rethrows, which ends the process)
CatchRethrow(running) == FALSE
Catch(running) == running

\* send_message after the await, the INSERT succeeded: build savedMsg, look
\* the receiver up, emit to the receiver if online, emit back to the sender
QueryResolves(i) ==
    /\ alive
    /\ calls[i].pc = "await"
    /\ LET call == calls[i]
           row  == InsertRow(messages, call.message.senderId, call.receiverId,
                             call.message.text, "sent")
       IN  /\ messages' = Append(messages, row)
           /\ inbox' = EmitAll(inbox, Recipients(onlineUsers, call), SavedMsg(row))
           /\ wire' = wire \o Emits(Recipients(onlineUsers, call), SavedMsg(row))
           /\ calls' = [calls EXCEPT ![i].pc = "done",
                                     ![i].id = row.id,
                                     ![i].target = MapGet(onlineUsers, call.receiverId)]
    /\ UNCHANGED <<alive, phase, userId, onlineUsers>>

\* send_message after the await, the INSERT was rejected: the catch block
QueryRejects(i) ==
    /\ alive
    /\ calls[i].pc = "await"
    /\ calls' = [calls EXCEPT ![i].pc = "failed"]
    /\ alive' = Catch(alive)
    /\ UNCHANGED <<phase, userId, onlineUsers, messages, inbox, wire>>

Next ==
    \/ \E s \in Sockets, uid \in Users \cup {Absent} : Connection(s, uid)
    \/ \E s \in Sockets : Disconnect(s)
    \/ \E s \in Sockets, p \in Payloads : SendMessage(s, p.message, p.receiverId)
    \/ \E i \in DOMAIN calls : QueryResolves(i)
    \/ \E i \in DOMAIN calls : QueryRejects(i)

Spec == Init /\ [][Next]_vars

\* ------------------------------------------------- properties: vocabulary
\* the payload of invocation i has a senderId, a receiverId and a non-empty text
Valid(call) ==
    /\ call.message.isObject
    /\ Truthy(call.message.senderId)
    /\ Truthy(call.receiverId)
    /\ Truthy(call.message.text)

Done(i) == calls[i].pc = "done"
Awaiting(i) == calls[i].pc = "await"

\* rows of the store that carry identifier x
RowsWithId(x) == {k \in DOMAIN messages : messages[k].id = x}

\* number of receive_message events with identifier x emitted to socket s
EventsFor(box, s, x) == Cardinality({k \in DOMAIN box[s] : box[s][k].id = x})

\* this step is the successful return of invocation i's INSERT
Resolves(i) == i \in DOMAIN calls /\ Awaiting(i) /\ calls'[i].pc = "done"
\* this step is the failed return of invocation i's INSERT
Rejects(i) == i \in DOMAIN calls /\ Awaiting(i) /\ calls'[i].pc = "failed"
\* this step is the connection of socket s / the disconnect of socket s
Connects(s) == phase[s] = "new" /\ phase'[s] = "open"
Disconnects(s) == phase[s] = "open" /\ phase'[s] = "closed"

\* the row invocation i stored, when it is done
RowMatches(i) ==
    \A k \in RowsWithId(calls[i].id) :
        /\ messages[k].status = "sent"
        /\ messages[k].sender_id = calls[i].message.senderId
        /\ messages[k].receiver_id = calls[i].receiverId
        /\ messages[k].content = calls[i].message.text

\* ------------------------------------------------------------------ C1
\* C1 as stated: every valid send_message whose insert succeeded has created
\* exactly one record with status 'sent', and the socket that sent it has been
\* emitted exactly one receive_message for that record, whatever the receiver.
C1_EchoExactlyOnce ==
    \A i \in DOMAIN calls :
        (Done(i) /\ Valid(calls[i])) =>
            /\ Cardinality(RowsWithId(calls[i].id)) = 1
            /\ RowMatches(i)
            /\ EventsFor(inbox, calls[i].socket, calls[i].id) = 1

\* C1 amended: every valid send_message whose insert succeeded has created
\* exactly one record with status 'sent' (one record per successful
\* invocation), and the sending socket has been emitted exactly one
\* confirmation for it; when the registry mapped receiverId to the sending
\* socket itself at lookup, that socket has also been emitted the receiver's
\* copy, two events in all.
C1_EchoOncePlusOwnDelivery ==
    /\ Len(messages) = Cardinality({i \in DOMAIN calls : Done(i)})
    /\ \A i \in DOMAIN calls :
        (Done(i) /\ Valid(calls[i])) =>
            /\ Cardinality(RowsWithId(calls[i].id)) = 1
            /\ RowMatches(i)
            /\ EventsFor(inbox, calls[i].socket, calls[i].id) =
                  (IF calls[i].target = calls[i].socket THEN 2 ELSE 1)

\* a valid message sent to the sender's own registered identifier is done,
\* and so is one sent to somebody else
C1_Witness ==
    /\ \E i \in DOMAIN calls :
          Done(i) /\ Valid(calls[i]) /\ calls[i].target = calls[i].socket
    /\ \E i \in DOMAIN calls :
          Done(i) /\ Valid(calls[i]) /\ calls[i].target /= calls[i].socket

\* ------------------------------------------------------------------ C2
\* every event with identifier x emitted to socket s carries the identifier
\* and the text of the stored row x
CarriesRow(box, rows, s, x) ==
    \A k \in DOMAIN box[s] :
        box[s][k].id = x =>
            \A r \in DOMAIN rows :
                rows[r].id = x => box[s][k].text = rows[r].content

\* C2 as stated: when a valid invocation's insert returns, if the registry
\* holds an entry for receiverId the socket in that entry is emitted exactly
\* one receive_message with the identifier and text of the record; if it holds
\* none, no socket that declared receiverId is emitted any event for it.
C2_ReceiverExactlyOne ==
    [][\A i \in DOMAIN calls :
          (Resolves(i) /\ Valid(calls[i])) =>
              LET t == onlineUsers[calls[i].receiverId]
                  x == calls'[i].id
              IN  IF t /= Absent
                  THEN /\ EventsFor(inbox', t, x) = 1
                       /\ CarriesRow(inbox', messages', t, x)
                  ELSE \A s \in Sockets :
                          userId[s] = calls[i].receiverId =>
                              EventsFor(inbox', s, x) = 0]_vars

\* C2 amended: when an invocation's insert returns, if the registry holds an
\* entry for receiverId the socket in that entry is emitted exactly one
\* receive_message with the identifier and text of the record, and a second
\* one, the sender's confirmation, when it is the sending socket itself; if
\* the registry holds none, no socket other than the sending one is emitted
\* anything.
C2_ReceiverOncePlusOwnEcho ==
    [][\A i \in DOMAIN calls :
          Resolves(i) =>
              LET t == onlineUsers[calls[i].receiverId]
                  x == calls'[i].id
              IN  /\ RowsWithId(x) = {}
                  /\ IF t /= Absent
                     THEN /\ EventsFor(inbox', t, x) =
                                (IF t = calls[i].socket THEN 2 ELSE 1)
                          /\ CarriesRow(inbox', messages', t, x)
                          /\ \A s \in Sockets \ {t, calls[i].socket} :
                                inbox'[s] = inbox[s]
                     ELSE \A s \in Sockets \ {calls[i].socket} :
                             inbox'[s] = inbox[s]]_vars

\* one message was delivered to another socket's registered receiver, one
\* found no entry for its receiver although a socket that declared the
\* receiver is open
C2_Witness ==
    /\ \E i \in DOMAIN calls :
          /\ Done(i) /\ Valid(calls[i])
          /\ Truthy(calls[i].target) /\ calls[i].target /= calls[i].socket
          /\ EventsFor(inbox, calls[i].target, calls[i].id) = 1
    /\ \E i \in DOMAIN calls :
          /\ Done(i) /\ Valid(calls[i]) /\ calls[i].target = Absent

\* ------------------------------------------------------------------ C3
\* C3 as stated: when a socket disconnects whose user identifier is mapped to
\* another, still open socket (a newer session of the same user), the entry
\* stays in place.
C3_StaleDisconnectKeepsEntry ==
    [][\A s \in Sockets :
          (/\ Disconnects(s)
           /\ Truthy(userId[s])
           /\ onlineUsers[userId[s]] \in Sockets \ {s}
           /\ phase[onlineUsers[userId[s]]] = "open")
          => onlineUsers'[userId[s]] = onlineUsers[userId[s]]]_vars

\* ------------------------------------------------------------------ C4
\* C4: when the insert of an invocation fails, the store, every socket's
\* events and the registry are as before, and the process keeps running, so
\* that later events are handled.
C4_RejectLeavesNoTrace ==
    [][\A i \in DOMAIN calls :
          Rejects(i) =>
              /\ messages' = messages
              /\ inbox' = inbox
              /\ onlineUsers' = onlineUsers
              /\ alive'
              /\ calls'[i].id = 0]_vars

\* the only invocation so far has had its insert fail, nothing was stored
\* or emitted, and the handlers of a connect, a send_message and a disconnect
\* can run next
C4_Witness ==
    /\ Len(calls) = 1
    /\ calls[1].pc = "failed" /\ calls[1].queried
    /\ messages = <<>>
    /\ \A s \in Sockets : inbox[s] = <<>>
    /\ \E s \in Sockets : ENABLED Connection(s, "B")
    /\ \E s \in Sockets : ENABLED Disconnect(s)
    /\ \E s \in Sockets, p \in Payloads :
          ENABLED SendMessage(s, p.message, p.receiverId)

\* ------------------------------------------------------------------ C5
\* C5 as stated: a send_message without senderId, without receiverId or with
\* a missing or empty text never gets as far as the store: it creates no
\* record and nobody is emitted an event for it.
C5_InvalidNeverStored ==
    \A i \in DOMAIN calls :
        ~Valid(calls[i]) => (~Done(i) /\ calls[i].id = 0)

\* ------------------------------------------------------------------ C6
\* some socket that declared u changes phase in this step
PhaseChangeFor(u) == \E s \in Sockets : phase'[s] /= phase[s] /\ userId'[s] = u

\* C6: a connect that declares user u makes the connecting socket the entry of
\* u, whatever entry u had; the entry of u then stays as it is in every step
\* that is no connect or disconnect of a socket declaring u; and a message
\* whose receiver lookup finds the entry is emitted to the socket in the entry
\* and to the sender, and to no other socket, open or not.
C6_LastConnectionWins ==
    [][/\ \A s \in Sockets :
             (Connects(s) /\ Truthy(userId'[s])) => onlineUsers'[userId'[s]] = s
       /\ \A u \in Users :
             ~PhaseChangeFor(u) => onlineUsers'[u] = onlineUsers[u]
       /\ \A i \in DOMAIN calls :
             (Resolves(i) /\ Truthy(calls[i].receiverId)) =>
                 /\ calls'[i].target = onlineUsers[calls[i].receiverId]
                 /\ \A s \in Sockets \ {calls'[i].target, calls[i].socket} :
                       inbox'[s] = inbox[s]]_vars

\* both sockets declared user A and are open, the entry of A is the one that
\* connected second (the other one sent the message and has only its own
\* confirmation), and the message to A went to the entry's socket
C6_Witness ==
    \E i \in DOMAIN calls :
        /\ Done(i) /\ calls[i].receiverId = "A"
        /\ \A s \in Sockets : phase[s] = "open" /\ userId[s] = "A"
        /\ calls[i].target = onlineUsers["A"]
        /\ calls[i].socket /= calls[i].target
        /\ EventsFor(inbox, calls[i].target, calls[i].id) = 1
        /\ EventsFor(inbox, calls[i].socket, calls[i].id) = 1

\* ------------------------------------------------------------------ C7
\* C7: the disconnect of the socket a user is mapped to removes the user's
\* entry; a missing entry stays missing until a socket declaring that user
\* connects; and an invocation whose lookup finds no entry for its receiver
\* stores its record, emits it once to the sending socket and emits nothing
\* to any other socket.
C7_OfflineReceiver ==
    [][/\ \A s \in Sockets :
             (Disconnects(s) /\ Truthy(userId[s]) /\ onlineUsers[userId[s]] = s)
                 => onlineUsers'[userId[s]] = Absent
       /\ \A u \in Users :
             (onlineUsers[u] = Absent /\ onlineUsers'[u] /= Absent)
                 => \E s \in Sockets : Connects(s) /\ userId'[s] = u
       /\ \A i \in DOMAIN calls :
             (Resolves(i) /\ onlineUsers[calls[i].receiverId] = Absent) =>
                 /\ Len(messages') = Len(messages) + 1
                 /\ messages'[Len(messages')].id = calls'[i].id
                 /\ messages'[Len(messages')].status = "sent"
                 /\ EventsFor(inbox', calls[i].socket, calls'[i].id) = 1
                 /\ \A s \in Sockets \ {calls[i].socket} : inbox'[s] = inbox[s]]_vars

\* user B's socket connected and disconnected, then a valid message to B was
\* stored and confirmed to its sender while B's socket got nothing
C7_Witness ==
    \E i \in DOMAIN calls, b \in Sockets :
        /\ userId[b] = "B" /\ phase[b] = "closed"
        /\ onlineUsers["B"] = Absent
        /\ Done(i) /\ Valid(calls[i]) /\ calls[i].receiverId = "B"
        /\ calls[i].socket /= b
        /\ calls[i].target = Absent
        /\ RowsWithId(calls[i].id) /= {}
        /\ EventsFor(inbox, calls[i].socket, calls[i].id) = 1
        /\ inbox[b] = <<>>

\* ------------------------------------------------------------------ C8
\* C8: two invocations with the same senderId, receiverId and text whose
\* inserts both succeeded have stored two records with different identifiers,
\* and each record was confirmed once to the socket that sent it (which has
\* one more event of a record when it was itself the receiver's entry).
C8_NoDeduplication ==
    \A i, j \in DOMAIN calls :
        (/\ i /= j /\ Done(i) /\ Done(j)
         /\ calls[i].message = calls[j].message
         /\ calls[i].receiverId = calls[j].receiverId) =>
            /\ calls[i].id /= calls[j].id
            /\ Cardinality(RowsWithId(calls[i].id)) = 1
            /\ Cardinality(RowsWithId(calls[j].id)) = 1
            /\ Len(messages) >= 2
            /\ EventsFor(inbox, calls[i].socket, calls[i].id) =
                  (IF calls[i].target = calls[i].socket THEN 2 ELSE 1)

\* one socket sent the same valid message twice and both were stored
C8_Witness ==
    \E i, j \in DOMAIN calls :
        /\ i < j /\ Done(i) /\ Done(j) /\ Valid(calls[i])
        /\ calls[i].socket = calls[j].socket
        /\ calls[i].message = calls[j].message
        /\ calls[i].receiverId = calls[j].receiverId
        /\ Len(messages) = 2

\* ------------------------------------------------------------------ C9
\* C9: the connect and the disconnect of a socket whose handshake carries no
\* user identifier leave the registry as it is, no entry of the registry ever
\* names such a socket, and an invocation of such a socket whose insert
\* succeeds stores its record and is confirmed to the socket.
C9_AnonymousSocket ==
    [][/\ \A s \in Sockets :
             (userId'[s] = Absent /\ (Connects(s) \/ Disconnects(s)))
                 => onlineUsers' = onlineUsers
       /\ \A k \in Keys, s \in Sockets :
             onlineUsers'[k] = s => userId'[s] /= Absent
       /\ \A i \in DOMAIN calls :
             (Resolves(i) /\ userId[calls[i].socket] = Absent) =>
                 /\ Len(messages') = Len(messages) + 1
                 /\ messages'[Len(messages')].id = calls'[i].id
                 /\ EventsFor(inbox', calls[i].socket, calls'[i].id) = 1]_vars

\* a socket without user identifier connected, had a message to B relayed to
\* B's socket and disconnected, and B's entry is still there
C9_Witness ==
    \E i \in DOMAIN calls, s, b \in Sockets :
        /\ userId[s] = Absent /\ phase[s] = "closed"
        /\ calls[i].socket = s /\ Done(i) /\ calls[i].target = b
        /\ onlineUsers["B"] = b /\ phase[b] = "open"
        /\ EventsFor(inbox, b, calls[i].id) = 1
        /\ EventsFor(inbox, s, calls[i].id) = 1

\* ----------------------------------------------------------------- C10
AwaitingOn(s) == {i \in DOMAIN calls : calls[i].socket = s /\ Awaiting(i)}

\* C10 as stated: no socket has a send_message begin, or disconnects, while an
\* earlier send_message of it still awaits the store: no socket ever has two
\* invocations awaiting, and no closed socket has one.
C10_OneEventAtATime ==
    \A s \in Sockets :
        /\ Cardinality(AwaitingOn(s)) <= 1
        /\ phase[s] = "closed" => AwaitingOn(s) = {}

\* C10 amended: a connect, a disconnect, a send_message up to its store call
\* and a send_message from the store's answer on each run to completion
\* without another event in between (an invocation is awaiting the store, or
\* it is finished and then its record and its confirmation are there); but
\* while a send_message awaits the store its socket is not held up: the
\* socket's disconnect and a further send_message of it can be handled.
C10_SuspendsOnlyAtStore ==
    /\ \A i \in DOMAIN calls :
          /\ calls[i].pc \in {"await", "done", "failed"}
          /\ Done(i) => /\ RowsWithId(calls[i].id) /= {}
                        /\ EventsFor(inbox, calls[i].socket, calls[i].id) >= 1
          /\ ~Done(i) => calls[i].id = 0
    /\ \A s \in Sockets :
          (phase[s] = "open" /\ AwaitingOn(s) /= {}) =>
              /\ ENABLED Disconnect(s)
              /\ Len(calls) < MaxSends =>
                    \A p \in Payloads : ENABLED SendMessage(s, p.message, p.receiverId)

\* a socket had a second send_message begin while its first awaited the
\* store, and disconnected while both were still awaiting
C10_Witness ==
    \E s \in Sockets : Cardinality(AwaitingOn(s)) = 2 /\ phase[s] = "closed"

\* ----------------------------------------------------------------- C11
\* C11: the store only grows; every receive_message that has been emitted is
\* the reshaped row of a record that is in the store; and the step in which an
\* invocation's insert returns adds the record, looks the receiver up in the
\* registry as it is then, and emits first to the receiver's socket, if the
\* registry has one, and last to the sending socket.  No other step emits.
C11_PersistLookupDeliverEcho ==
    [][/\ Len(messages') >= Len(messages)
       /\ SubSeq(messages', 1, Len(messages)) = messages
       /\ \A s \in Sockets : \A k \in DOMAIN inbox'[s] :
             \E r \in DOMAIN messages' : inbox'[s][k] = SavedMsg(messages'[r])
       /\ \A k \in DOMAIN wire' :
             \E r \in DOMAIN messages' : messages'[r].id = wire'[k].id
       /\ \A i \in DOMAIN calls :
             Resolves(i) =>
                 LET t == onlineUsers[calls[i].receiverId]
                     x == Len(messages) + 1
                     echo == <<[to |-> calls[i].socket, id |-> x]>>
                 IN  /\ calls'[i].id = x
                     /\ Len(messages') = x /\ messages'[x].id = x
                     /\ wire' = wire \o (IF t /= Absent
                                         THEN <<[to |-> t, id |-> x]>> ELSE <<>>)
                                     \o echo
       /\ (\A i \in DOMAIN calls : ~Resolves(i)) =>
             (wire' = wire /\ inbox' = inbox /\ messages' = messages)]_vars

\* a message was delivered to the receiver's socket and then confirmed to the
\* sender, and an invocation that failed left no record and no event
C11_Witness ==
    /\ Len(wire) = 2 /\ Len(messages) = 1 /\ Len(calls) = 2
    /\ wire[1].to /= wire[2].to
    /\ \E i \in DOMAIN calls :
          /\ Done(i) /\ wire[2].to = calls[i].socket /\ wire[1].to = calls[i].target
          /\ wire[1].id = calls[i].id /\ wire[2].id = calls[i].id
    /\ \E i \in DOMAIN calls : calls[i].pc = "failed"

\* ----------------------------------------------------------------- C12
\* number of emits of record x
EmitsOf(w, x) == Cardinality({k \in DOMAIN w : w[k].id = x})

\* C12: a disconnect, of a sender or of a receiver, changes no invocation, no
\* record and emits nothing; when the insert of an invocation returns after
\* its socket has closed, the record is stored with status 'sent' and the
\* socket the registry then has for the receiver is emitted the message; and
\* a finished invocation's record has been emitted once to the receiver's
\* socket, if there was one, and once to the sender, never again.
C12_NoCancellationNoRetry ==
    [][/\ \A s \in Sockets :
             Disconnects(s) =>
                 (calls' = calls /\ messages' = messages /\ wire' = wire)
       /\ \A i \in DOMAIN calls :
             (Resolves(i) /\ phase[calls[i].socket] = "closed") =>
                 LET t == onlineUsers[calls[i].receiverId]
                     x == Len(messages')
                 IN  /\ Len(messages') = Len(messages) + 1
                     /\ messages'[x].status = "sent"
                     /\ messages'[x].content = calls[i].message.text
                     /\ t /= Absent =>
                           /\ Len(inbox'[t]) = Len(inbox[t]) + 1
                           /\ inbox'[t][Len(inbox'[t])] = SavedMsg(messages'[x])
       /\ \A i \in DOMAIN calls' :
             calls'[i].pc = "done" =>
                 /\ \E r \in DOMAIN messages' :
                       messages'[r].id = calls'[i].id /\ messages'[r].status = "sent"
                 /\ EmitsOf(wire', calls'[i].id) =
                       (IF calls'[i].target = Absent THEN 1 ELSE 2)]_vars

\* the sender's socket has closed while its message to B awaits the store, B
\* is registered on the other socket, and the insert can still return; an
\* earlier message was stored and delivered to a receiver's socket
C12_Witness ==
    \E i, j \in DOMAIN calls :
        /\ Awaiting(i) /\ phase[calls[i].socket] = "closed"
        /\ calls[i].receiverId = "B" /\ Valid(calls[i])
        /\ onlineUsers["B"] \in Sockets \ {calls[i].socket}
        /\ ENABLED QueryResolves(i)
        /\ Done(j) /\ calls[j].target \in Sockets
        /\ RowsWithId(calls[j].id) /= {}

\* ----------------------------------------------------------------- C13
\* C13: every entry of the registry names a socket that is open and that
\* declared the entry's user identifier in its handshake.
C13_EntriesAreOpenSockets ==
    \A u \in Keys :
        onlineUsers[u] /= Absent =>
            /\ onlineUsers[u] \in Sockets
            /\ phase[onlineUsers[u]] = "open"
            /\ userId[onlineUsers[u]] = u

\* a socket that declared A has connected and disconnected, the other socket
\* declared A too and is A's entry
C13_Witness ==
    \E c, d \in Sockets :
        /\ c /= d
        /\ userId[c] = "A" /\ phase[c] = "closed"
        /\ userId[d] = "A" /\ phase[d] = "open"
        /\ onlineUsers["A"] = d

====
